---- MODULE Spec2Model ----
(***************************************************************************)
(* Group Management API (src/main.py): the relational store and the        *)
(* request handlers that read and write it.  Requests are served by        *)
(* concurrent workers; a handler is a sequence of database statements, and *)
(* each statement (a query, or the flush+commit of a pending insert or     *)
(* delete) is one atomic step against the committed state of the store.    *)
(* The store enforces the declared constraints: unique columns, foreign    *)
(* keys, and ON DELETE CASCADE.                                            *)
(***************************************************************************)
EXTENDS Integers, Sequences, FiniteSets, TLC

\* ---------------------------------------------------------------- inputs

Workers == {"w1", "w2"}
FirebaseUids == {"uidA", "uidB"}
\* Bearer credentials: the two identities, and one that never registers.
Credentials == FirebaseUids \cup {"uidC"}
Phones == {"+1000", "+2000"}
FullNames == {"alice", "bob"}
\* The creation requests clients send: each identity asks for its own group
\* name, from any number of devices at once.
CreateRequests == {<<"uidA", "Savers">>, <<"uidB", "Chama">>}
\* Requested amounts, in thousandths of a currency unit (0.004 is 4).
Amounts == {-5000, 0, 4, 125}

MaxGroups == 2
MaxContributions == 2
MaxMeetings == 1

GroupIds == 1..MaxGroups
\* User ids a request may name: those of the users that can exist, and one more.
UserIds == 1..(Cardinality(FirebaseUids) + 1)

HTTP_200_OK == 200
HTTP_201_CREATED == 201
HTTP_400_BAD_REQUEST == 400
HTTP_401_UNAUTHORIZED == 401
HTTP_403_FORBIDDEN == 403
HTTP_404_NOT_FOUND == 404
HTTP_422_UNPROCESSABLE_ENTITY == 422
HTTP_500_INTERNAL_SERVER_ERROR == 500

\* ----------------------------------------------------------------- state

VARIABLES
    users,          \* table users: rows [id, firebase_uid, full_name, phone]
    groups,         \* table groups: rows [id, name, created_by]
    members,        \* table group_members: rows [group_id, user_id]
    contributions,  \* table contributions, in insertion order: [group_id, user_id, amount]
    meetings,       \* table meetings, in insertion order: [group_id]
    polls,          \* table polls: rows [id, group_id, question, created_by]
    poll_votes,     \* table poll_votes: rows [poll_id, user_id, vote]
    nextGroupId,    \* the groups.id sequence
    pc,             \* per worker: the statement its handler runs next
    req,            \* per worker: the request it serves and the handler's locals
    resp,           \* per worker: the status code it answered
    exc             \* per worker: the exception its handler caught, if any

db == <<users, groups, members, contributions, meetings, polls, poll_votes, nextGroupId>>
vars == <<users, groups, members, contributions, meetings, polls, poll_votes, nextGroupId,
          pc, req, resp, exc>>

NoRequest ==
    [op |-> "none", user |-> 0, group_id |-> 0, user_id |-> 0, name |-> "",
     firebase_uid |-> "", full_name |-> "", phone |-> "", amount |-> 0,
     validated |-> 0, poll_id |-> 0, vote |-> FALSE, created_by |-> 0,
     user_groups |-> {}, body_groups |-> {}, body_members |-> {},
     body_contributions |-> {}]

\* Both users registered, as two /register/ calls leave the store.
RegisteredUsers ==
    {[id |-> 1, firebase_uid |-> "uidA", full_name |-> "alice", phone |-> "+1000"],
     [id |-> 2, firebase_uid |-> "uidB", full_name |-> "bob", phone |-> "+2000"]}

Init ==
    /\ users = {}
    /\ groups = {}
    /\ members = {}
    /\ contributions = <<>>
    /\ meetings = <<>>
    /\ polls = {}
    /\ poll_votes = {}
    /\ nextGroupId = 1
    /\ pc = [w \in Workers |-> "idle"]
    /\ req = [w \in Workers |-> NoRequest]
    /\ resp = [w \in Workers |-> 0]
    /\ exc = [w \in Workers |-> "none"]

\* --------------------------------------------------------------- helpers

\* Group.id == group_id, .first(): the set of matching rows (empty or one).
GroupById(group_id) == {g \in groups : g.id = group_id}

UserById(user_id) == {u \in users : u.id = user_id}

\* The users.id sequence: users are never deleted, so it is the row count + 1.
nextUserId == Cardinality(users) + 1

get_current_user(authorization) ==
    LET found == {u \in users : u.firebase_uid = authorization}
    IN  IF found = {} THEN 0 ELSE (CHOOSE u \in found : TRUE).id

\* verify_group_membership without the filter on the group.
verify_group_membership_any_group(group_id, user_id) ==
    \E m \in members : m.user_id = user_id

verify_group_membership(group_id, user_id) ==
    \E m \in members : m.group_id = group_id /\ m.user_id = user_id

\* The group_members row of a user in a group.
MemberRowOf(group_id, user_id) == [group_id |-> group_id, user_id |-> user_id]

\* round(v, 2) of a float given in thousandths, in hundredths: to nearest, and
\* a value exactly halfway (representable in binary: .125, .375, ...) to even.
Round2(v) ==
    LET q == v \div 10
        r == v % 10
    IN  IF r < 5 THEN q
        ELSE IF r > 5 THEN q + 1
        ELSE IF q % 2 = 0 THEN q ELSE q + 1

\* Field(gt=0) and the validator: TRUE when the amount is accepted.
amount_accepted(v) == v > 0

validate_amount(v) == Round2(v)

Respond(w, code, e) ==
    /\ pc' = [pc EXCEPT ![w] = "done"]
    /\ resp' = [resp EXCEPT ![w] = code]
    /\ exc' = [exc EXCEPT ![w] = e]

Goto(w, label) ==
    /\ pc' = [pc EXCEPT ![w] = label]
    /\ UNCHANGED <<resp, exc>>

\* Requests in flight that may still insert a group / a contribution / a meeting.
PendingOps(names) == Cardinality({w \in Workers : pc[w] \in names})

\* ------------------------------------------------------------ the client

\* A worker that answered takes the next request.
Return(w) ==
    /\ pc[w] = "done"
    /\ pc' = [pc EXCEPT ![w] = "idle"]
    /\ req' = [req EXCEPT ![w] = NoRequest]
    /\ resp' = [resp EXCEPT ![w] = 0]
    /\ exc' = [exc EXCEPT ![w] = "none"]
    /\ UNCHANGED db

\* ------------------------------------------------------------- /register/

register_user_request(w, firebase_uid, full_name, phone) ==
    /\ pc[w] = "idle"
    /\ req' = [req EXCEPT ![w] = [NoRequest EXCEPT !.op = "register_user",
                  !.firebase_uid = firebase_uid, !.full_name = full_name,
                  !.phone = phone]]
    /\ Goto(w, "register_user_check")
    /\ UNCHANGED db

register_user_check(w) ==
    /\ pc[w] = "register_user_check"
    /\ IF \E u \in users : u.firebase_uid = req[w].firebase_uid
       THEN Respond(w, HTTP_400_BAD_REQUEST, "none")
       ELSE Goto(w, "register_user_commit")
    /\ UNCHANGED <<db, req>>

\* users_unique without the constraint on phone.
users_unique_uid_only(row) == \A u \in users : u.firebase_uid # row.firebase_uid

\* The unique constraints of table users.
users_unique(row) ==
    /\ \A u \in users : u.firebase_uid # row.firebase_uid
    /\ \A u \in users : u.phone # row.phone

register_user_commit(w, fault) ==
    /\ pc[w] = "register_user_commit"
    /\ LET new_user == [id |-> nextUserId, firebase_uid |-> req[w].firebase_uid,
                        full_name |-> req[w].full_name, phone |-> req[w].phone]
       IN  IF fault
           THEN /\ Respond(w, HTTP_500_INTERNAL_SERVER_ERROR, "OperationalError")
                /\ UNCHANGED users
           ELSE IF ~users_unique(new_user)
           THEN /\ Respond(w, HTTP_400_BAD_REQUEST, "IntegrityError")
                /\ UNCHANGED users
           ELSE /\ users' = users \cup {new_user}
                /\ Respond(w, HTTP_201_CREATED, "none")
    /\ UNCHANGED <<polls, poll_votes, groups, members, contributions, meetings, nextGroupId, req>>

\* ------------------------------------------------------- authenticated requests

\* Depends(get_current_user), then the handler's first statement.
Authenticated(w, authorization, request, first) ==
    /\ pc[w] = "idle"
    /\ LET current_user == get_current_user(authorization)
       IN  /\ req' = [req EXCEPT ![w] = [request EXCEPT !.user = current_user]]
           /\ IF current_user = 0
              THEN Respond(w, HTTP_401_UNAUTHORIZED, "none")
              ELSE Goto(w, first)
    /\ UNCHANGED db

\* ---------------------------------------------------------- POST /groups/

create_group_request(w, authorization, name) ==
    /\ nextGroupId + PendingOps({"create_group_check", "create_group_commit"}) <= MaxGroups
    /\ Authenticated(w, authorization,
                     [NoRequest EXCEPT !.op = "create_group", !.name = name],
                     "create_group_check")

create_group_check(w) ==
    /\ pc[w] = "create_group_check"
    /\ IF \E g \in groups : g.name = req[w].name
       THEN Respond(w, HTTP_400_BAD_REQUEST, "none")
       ELSE Goto(w, "create_group_commit")
    /\ UNCHANGED <<db, req>>

\* The unique constraint of table groups.
groups_unique(row) == \A g \in groups : g.name # row.name

\* The unique constraint and the foreign keys of table group_members.
group_members_ok(row) ==
    /\ \A m \in members : ~(m.group_id = row.group_id /\ m.user_id = row.user_id)
    /\ GroupById(row.group_id) # {}
    /\ UserById(row.user_id) # {}

\* db.add(new_group); db.commit()
create_group_commit(w, fault) ==
    /\ pc[w] = "create_group_commit"
    /\ LET new_group == [id |-> nextGroupId, name |-> req[w].name,
                         created_by |-> req[w].user]
       IN  IF fault
           THEN /\ Respond(w, HTTP_500_INTERNAL_SERVER_ERROR, "OperationalError")
                /\ UNCHANGED <<groups, nextGroupId, req>>
           ELSE IF ~groups_unique(new_group)
           THEN /\ Respond(w, HTTP_500_INTERNAL_SERVER_ERROR, "IntegrityError")
                /\ UNCHANGED <<groups, nextGroupId, req>>
           ELSE /\ groups' = groups \cup {new_group}
                /\ nextGroupId' = nextGroupId + 1
                /\ req' = [req EXCEPT ![w].group_id = new_group.id]
                /\ Goto(w, "create_group_refresh")
    /\ UNCHANGED <<polls, poll_votes, users, members, contributions, meetings>>

\* db.refresh(new_group): fails when the row is gone.
create_group_refresh(w) ==
    /\ pc[w] = "create_group_refresh"
    /\ IF GroupById(req[w].group_id) = {}
       THEN Respond(w, HTTP_500_INTERNAL_SERVER_ERROR, "InvalidRequestError")
       ELSE Goto(w, "create_group_member")
    /\ UNCHANGED <<db, req>>

\* creator_member with its two ids exchanged.
creator_member_swapped(group_id, current_user) ==
    [group_id |-> current_user, user_id |-> group_id]

\* The row create_group adds for the creator.
creator_member(group_id, current_user) ==
    [group_id |-> group_id, user_id |-> current_user]

\* db.add(member); db.commit()
create_group_member(w, fault) ==
    /\ pc[w] = "create_group_member"
    /\ LET member == creator_member(req[w].group_id, req[w].user)
       IN  IF fault
           THEN /\ Respond(w, HTTP_500_INTERNAL_SERVER_ERROR, "OperationalError")
                /\ UNCHANGED members
           ELSE IF ~group_members_ok(member)
           THEN /\ Respond(w, HTTP_500_INTERNAL_SERVER_ERROR, "IntegrityError")
                /\ UNCHANGED members
           ELSE /\ members' = members \cup {member}
                /\ Goto(w, "create_group_return")
    /\ UNCHANGED <<polls, poll_votes, users, groups, contributions, meetings, nextGroupId, req>>

\* return new_group: the response is built from the row, which the commit
\* expired; the reload fails, outside the handler's try, when the row is gone.
create_group_return(w) ==
    /\ pc[w] = "create_group_return"
    /\ IF GroupById(req[w].group_id) = {}
       THEN Respond(w, HTTP_500_INTERNAL_SERVER_ERROR, "ObjectDeletedError")
       ELSE Respond(w, HTTP_201_CREATED, "none")
    /\ UNCHANGED <<db, req>>

\* ------------------------------------------------ DELETE /groups/{group_id}/

delete_group_request(w, authorization, group_id) ==
    Authenticated(w, authorization,
                  [NoRequest EXCEPT !.op = "delete_group", !.group_id = group_id],
                  "delete_group_check")

\* delete_group_checks without the comparison with the creator.
delete_group_checks_any_user(group, current_user) ==
    IF group = {} THEN HTTP_404_NOT_FOUND ELSE 0

\* The handler's checks on the row it loaded (the empty set: no row): the status
\* it raises, or 0 to go on.
delete_group_checks(group, current_user) ==
    IF group = {} THEN HTTP_404_NOT_FOUND
    ELSE IF (CHOOSE g \in group : TRUE).created_by # current_user THEN HTTP_403_FORBIDDEN
    ELSE 0

delete_group_check(w) ==
    /\ pc[w] = "delete_group_check"
    /\ LET code == delete_group_checks(GroupById(req[w].group_id), req[w].user)
       IN  IF code # 0 THEN Respond(w, code, "none")
           ELSE Goto(w, "delete_group_commit")
    /\ UNCHANGED <<db, req>>

\* contributions.group_id without ondelete='CASCADE'.
cascade_contributions_none(group_id) == contributions

\* ON DELETE CASCADE of group_members, contributions and meetings on groups.id.
cascade_members(group_id) == {m \in members : m.group_id # group_id}

cascade_contributions(group_id) ==
    LET keep(c) == c.group_id # group_id IN SelectSeq(contributions, keep)

cascade_meetings(group_id) ==
    LET keep(m) == m.group_id # group_id IN SelectSeq(meetings, keep)

\* ON DELETE CASCADE of polls on groups.id, and of poll_votes on polls.id.
cascade_polls(group_id) == {p \in polls : p.group_id # group_id}

cascade_poll_votes(group_id) ==
    {v \in poll_votes : \E p \in cascade_polls(group_id) : p.id = v.poll_id}

\* db.delete(group); db.commit().  A DELETE that matches no row (the group was
\* deleted meanwhile) is a warning of the ORM, not an error.
delete_group_commit(w, fault) ==
    /\ pc[w] = "delete_group_commit"
    /\ IF fault
       THEN /\ Respond(w, HTTP_500_INTERNAL_SERVER_ERROR, "OperationalError")
            /\ UNCHANGED <<groups, members, contributions, meetings, polls, poll_votes>>
       ELSE /\ groups' = {g \in groups : g.id # req[w].group_id}
            /\ members' = cascade_members(req[w].group_id)
            /\ contributions' = cascade_contributions(req[w].group_id)
            /\ meetings' = cascade_meetings(req[w].group_id)
            /\ polls' = cascade_polls(req[w].group_id)
            /\ poll_votes' = cascade_poll_votes(req[w].group_id)
            /\ Respond(w, HTTP_200_OK, "none")
    /\ UNCHANGED <<users, nextGroupId, req>>

\* ------------------------------------------- POST /groups/{group_id}/members/

add_group_member_request(w, authorization, group_id, user_id) ==
    Authenticated(w, authorization,
                  [NoRequest EXCEPT !.op = "add_group_member", !.group_id = group_id,
                                    !.user_id = user_id],
                  "add_group_member_group")

add_group_member_group(w) ==
    /\ pc[w] = "add_group_member_group"
    /\ IF GroupById(req[w].group_id) = {}
       THEN Respond(w, HTTP_404_NOT_FOUND, "none")
       ELSE Goto(w, "add_group_member_requester")
    /\ UNCHANGED <<db, req>>

add_group_member_requester(w) ==
    /\ pc[w] = "add_group_member_requester"
    /\ IF ~verify_group_membership(req[w].group_id, req[w].user)
       THEN Respond(w, HTTP_403_FORBIDDEN, "none")
       ELSE Goto(w, "add_group_member_user")
    /\ UNCHANGED <<db, req>>

add_group_member_user(w) ==
    /\ pc[w] = "add_group_member_user"
    /\ IF UserById(req[w].user_id) = {}
       THEN Respond(w, HTTP_404_NOT_FOUND, "none")
       ELSE Goto(w, "add_group_member_existing")
    /\ UNCHANGED <<db, req>>

add_group_member_existing(w) ==
    /\ pc[w] = "add_group_member_existing"
    /\ IF verify_group_membership(req[w].group_id, req[w].user_id)
       THEN Respond(w, HTTP_400_BAD_REQUEST, "none")
       ELSE Goto(w, "add_group_member_commit")
    /\ UNCHANGED <<db, req>>

\* db.add(member); db.commit()
add_group_member_commit(w, fault) ==
    /\ pc[w] = "add_group_member_commit"
    /\ LET member == [group_id |-> req[w].group_id, user_id |-> req[w].user_id]
       IN  IF fault
           THEN /\ Respond(w, HTTP_500_INTERNAL_SERVER_ERROR, "OperationalError")
                /\ UNCHANGED members
           ELSE IF ~group_members_ok(member)
           THEN /\ Respond(w, HTTP_500_INTERNAL_SERVER_ERROR, "IntegrityError")
                /\ UNCHANGED members
           ELSE /\ members' = members \cup {member}
                /\ Goto(w, "add_group_member_refresh")
    /\ UNCHANGED <<polls, poll_votes, users, groups, contributions, meetings, nextGroupId, req>>

\* db.refresh(member): fails when the row is gone.
add_group_member_refresh(w) ==
    /\ pc[w] = "add_group_member_refresh"
    /\ IF ~verify_group_membership(req[w].group_id, req[w].user_id)
       THEN Respond(w, HTTP_500_INTERNAL_SERVER_ERROR, "InvalidRequestError")
       ELSE Respond(w, HTTP_201_CREATED, "none")
    /\ UNCHANGED <<db, req>>

\* ------------------------------ DELETE /groups/{group_id}/members/{user_id}/

remove_member_request(w, authorization, group_id, user_id) ==
    Authenticated(w, authorization,
                  [NoRequest EXCEPT !.op = "remove_member", !.group_id = group_id,
                                    !.user_id = user_id],
                  "remove_member_group")

\* remove_member_checks without "Can't remove the creator".
remove_member_checks_no_creator_guard(group, current_user, user_id) ==
    IF group = {} THEN HTTP_404_NOT_FOUND
    ELSE LET created_by == (CHOOSE g \in group : TRUE).created_by
         IN  IF created_by # current_user /\ current_user # user_id
             THEN HTTP_403_FORBIDDEN
             ELSE 0

\* remove_member_checks with the creator guard ahead of the permission check.
remove_member_checks_guard_first(group, current_user, user_id) ==
    IF group = {} THEN HTTP_404_NOT_FOUND
    ELSE LET created_by == (CHOOSE g \in group : TRUE).created_by
         IN  IF user_id = created_by THEN HTTP_400_BAD_REQUEST
             ELSE IF created_by # current_user /\ current_user # user_id
             THEN HTTP_403_FORBIDDEN
             ELSE 0

\* The checks on the loaded group row, before the member is looked up: the
\* status raised, or 0 to go on.
remove_member_checks(group, current_user, user_id) ==
    IF group = {} THEN HTTP_404_NOT_FOUND
    ELSE LET created_by == (CHOOSE g \in group : TRUE).created_by
         IN  IF created_by # current_user /\ current_user # user_id
             THEN HTTP_403_FORBIDDEN
             ELSE IF user_id = created_by THEN HTTP_400_BAD_REQUEST
             ELSE 0

remove_member_group(w) ==
    /\ pc[w] = "remove_member_group"
    /\ LET code == remove_member_checks(GroupById(req[w].group_id), req[w].user,
                                        req[w].user_id)
       IN  IF code # 0 THEN Respond(w, code, "none")
           ELSE Goto(w, "remove_member_member")
    /\ UNCHANGED <<db, req>>

remove_member_member(w) ==
    /\ pc[w] = "remove_member_member"
    /\ IF ~verify_group_membership(req[w].group_id, req[w].user_id)
       THEN Respond(w, HTTP_404_NOT_FOUND, "none")
       ELSE Goto(w, "remove_member_commit")
    /\ UNCHANGED <<db, req>>

\* db.delete(member); db.commit().  A DELETE that matches no row is a warning.
remove_member_commit(w, fault) ==
    /\ pc[w] = "remove_member_commit"
    /\ IF fault
       THEN /\ Respond(w, HTTP_500_INTERNAL_SERVER_ERROR, "OperationalError")
            /\ UNCHANGED members
       ELSE /\ members' = {m \in members :
                              ~(m.group_id = req[w].group_id /\ m.user_id = req[w].user_id)}
            /\ Respond(w, HTTP_200_OK, "none")
    /\ UNCHANGED <<polls, poll_votes, users, groups, contributions, meetings, nextGroupId, req>>

\* ------------------------------------- POST /groups/{group_id}/contributions/

\* Depends(get_current_user), then the body is validated (ContributionCreate),
\* then the handler runs.  req.validated is ContributionCreate.amount, in
\* hundredths.
record_contribution_request(w, authorization, group_id, amount) ==
    /\ pc[w] = "idle"
    /\ Len(contributions) + Cardinality({v \in Workers :
           req[v].op = "record_contribution" /\ pc[v] # "done"}) < MaxContributions
    /\ LET current_user == get_current_user(authorization)
       IN  /\ req' = [req EXCEPT ![w] = [NoRequest EXCEPT
                         !.op = "record_contribution", !.user = current_user,
                         !.group_id = group_id, !.amount = amount,
                         !.validated = IF amount_accepted(amount)
                                       THEN validate_amount(amount) ELSE 0]]
           /\ IF current_user = 0
              THEN Respond(w, HTTP_401_UNAUTHORIZED, "none")
              ELSE IF ~amount_accepted(amount)
              THEN Respond(w, HTTP_422_UNPROCESSABLE_ENTITY, "none")
              ELSE Goto(w, "record_contribution_group")
    /\ UNCHANGED db

record_contribution_group(w) ==
    /\ pc[w] = "record_contribution_group"
    /\ IF GroupById(req[w].group_id) = {}
       THEN Respond(w, HTTP_404_NOT_FOUND, "none")
       ELSE Goto(w, "record_contribution_member")
    /\ UNCHANGED <<db, req>>

record_contribution_member(w) ==
    /\ pc[w] = "record_contribution_member"
    /\ IF ~verify_group_membership(req[w].group_id, req[w].user)
       THEN Respond(w, HTTP_403_FORBIDDEN, "none")
       ELSE Goto(w, "record_contribution_commit")
    /\ UNCHANGED <<db, req>>

\* A row inserted without its foreign keys being enforced.
references_unchecked(group_id, user_id) == TRUE

\* The foreign keys of a row that references groups.id and users.id.
references_ok(group_id, user_id) ==
    /\ GroupById(group_id) # {}
    /\ UserById(user_id) # {}

\* db.add(new_contribution); db.commit()
record_contribution_commit(w, fault) ==
    /\ pc[w] = "record_contribution_commit"
    /\ LET new_contribution == [group_id |-> req[w].group_id, user_id |-> req[w].user,
                                amount |-> req[w].validated]
       IN  IF fault
           THEN /\ Respond(w, HTTP_500_INTERNAL_SERVER_ERROR, "OperationalError")
                /\ UNCHANGED contributions
           ELSE IF ~references_ok(new_contribution.group_id, new_contribution.user_id)
           THEN /\ Respond(w, HTTP_500_INTERNAL_SERVER_ERROR, "IntegrityError")
                /\ UNCHANGED contributions
           ELSE /\ contributions' = Append(contributions, new_contribution)
                /\ Goto(w, "record_contribution_refresh")
    /\ UNCHANGED <<polls, poll_votes, users, groups, members, meetings, nextGroupId, req>>

\* db.refresh(row) of a contribution or a meeting: such a row is deleted only
\* by the cascade from its group, and group ids are not reused, so the row is
\* gone exactly when its group is.
row_gone(group_id) == GroupById(group_id) = {}

record_contribution_refresh(w) ==
    /\ pc[w] = "record_contribution_refresh"
    /\ IF row_gone(req[w].group_id)
       THEN Respond(w, HTTP_500_INTERNAL_SERVER_ERROR, "InvalidRequestError")
       ELSE Respond(w, HTTP_201_CREATED, "none")
    /\ UNCHANGED <<db, req>>

\* ------------------------------------------ POST /groups/{group_id}/meetings/

schedule_meeting_request(w, authorization, group_id) ==
    /\ Len(meetings) + Cardinality({v \in Workers :
           req[v].op = "schedule_meeting" /\ pc[v] # "done"}) < MaxMeetings
    /\ Authenticated(w, authorization,
                     [NoRequest EXCEPT !.op = "schedule_meeting", !.group_id = group_id],
                     "schedule_meeting_group")

schedule_meeting_group(w) ==
    /\ pc[w] = "schedule_meeting_group"
    /\ IF GroupById(req[w].group_id) = {}
       THEN Respond(w, HTTP_404_NOT_FOUND, "none")
       ELSE Goto(w, "schedule_meeting_member")
    /\ UNCHANGED <<db, req>>

schedule_meeting_member(w) ==
    /\ pc[w] = "schedule_meeting_member"
    /\ IF ~verify_group_membership(req[w].group_id, req[w].user)
       THEN Respond(w, HTTP_403_FORBIDDEN, "none")
       ELSE Goto(w, "schedule_meeting_commit")
    /\ UNCHANGED <<db, req>>

\* db.add(new_meeting); db.commit()
schedule_meeting_commit(w, fault) ==
    /\ pc[w] = "schedule_meeting_commit"
    /\ IF fault
       THEN /\ Respond(w, HTTP_500_INTERNAL_SERVER_ERROR, "OperationalError")
            /\ UNCHANGED meetings
       ELSE IF GroupById(req[w].group_id) = {}
       THEN /\ Respond(w, HTTP_500_INTERNAL_SERVER_ERROR, "IntegrityError")
            /\ UNCHANGED meetings
       ELSE /\ meetings' = Append(meetings, [group_id |-> req[w].group_id])
            /\ Goto(w, "schedule_meeting_refresh")
    /\ UNCHANGED <<polls, poll_votes, users, groups, members, contributions, nextGroupId, req>>

schedule_meeting_refresh(w) ==
    /\ pc[w] = "schedule_meeting_refresh"
    /\ IF row_gone(req[w].group_id)
       THEN Respond(w, HTTP_500_INTERNAL_SERVER_ERROR, "InvalidRequestError")
       ELSE Respond(w, HTTP_201_CREATED, "none")
    /\ UNCHANGED <<db, req>>

\* ------------------------------------------------- the group-scoped GETs
\* GET /groups/{id}, /groups/{id}/members/, /contributions/, /meetings/: the
\* group query, the membership query, then the queries of the listing.

ReadOps == {"get_group_details", "list_group_members", "list_contributions",
            "list_meetings"}

read_request(w, op, authorization, group_id) ==
    Authenticated(w, authorization,
                  [NoRequest EXCEPT !.op = op, !.group_id = group_id], "read_group")

\* group = db.query(Group)...first(): the handler keeps the loaded row.
read_group(w) ==
    /\ pc[w] = "read_group"
    /\ LET group == GroupById(req[w].group_id)
       IN  IF group = {}
           THEN Respond(w, HTTP_404_NOT_FOUND, "none") /\ UNCHANGED req
           ELSE /\ req' = [req EXCEPT ![w].created_by =
                                (CHOOSE g \in group : TRUE).created_by]
                /\ Goto(w, "read_member")
    /\ UNCHANGED db

read_member(w) ==
    /\ pc[w] = "read_member"
    /\ IF ~verify_group_membership(req[w].group_id, req[w].user)
       THEN Respond(w, HTTP_403_FORBIDDEN, "none")
       ELSE Goto(w, "read_rows")
    /\ UNCHANGED <<db, req>>

\* Every entry gets the role "member".
member_list_no_admin(group_id, created_by) ==
    {[group_id |-> group_id, id |-> u.id, name |-> u.full_name, role |-> "member"] :
        u \in {v \in users : MemberRowOf(group_id, v.id) \in members}}

\* db.query(GroupMember, User).join(User).filter(group_id == ...): one entry
\* per member row, with the role decided by the loaded group's created_by.
member_list(group_id, created_by) ==
    {[group_id |-> group_id, id |-> u.id, name |-> u.full_name,
      role |-> IF u.id = created_by THEN "admin" ELSE "member"] :
        u \in {v \in users : MemberRowOf(group_id, v.id) \in members}}

\* The contributions_map loop over the first i joined rows of the group: the
\* amounts (in hundredths) added under the key user.full_name.
RECURSIVE contributions_map_value(_, _, _)
contributions_map_value(group_id, full_name, i) ==
    IF i = 0 THEN 0
    ELSE contributions_map_value(group_id, full_name, i - 1)
         + (IF /\ contributions[i].group_id = group_id
               /\ \E u \in users : /\ u.id = contributions[i].user_id
                                    /\ u.full_name = full_name
            THEN contributions[i].amount ELSE 0)

\* The keys are the names of the users with a contribution row in the group.
contributions_map(group_id) ==
    {[group_id |-> group_id, name |-> u.full_name,
      total |-> contributions_map_value(group_id, u.full_name, Len(contributions))] :
        u \in {v \in users : \E i \in 1..Len(contributions) :
                                /\ contributions[i].group_id = group_id
                                /\ contributions[i].user_id = v.id}}

\* The listing's query (get_group_details and list_group_members: the members
\* query).
read_rows(w) ==
    /\ pc[w] = "read_rows"
    /\ IF req[w].op = "get_group_details"
       THEN /\ req' = [req EXCEPT ![w].body_groups = {req[w].group_id},
                                       ![w].body_members =
                            member_list(req[w].group_id, req[w].created_by)]
            /\ Goto(w, "get_group_details_contributions")
       ELSE /\ req' = [req EXCEPT ![w].body_groups =
                            IF req[w].op = "list_group_members"
                            THEN {req[w].group_id} ELSE {},
                                       ![w].body_members =
                            IF req[w].op = "list_group_members"
                            THEN member_list(req[w].group_id, req[w].created_by)
                            ELSE {}]
            /\ Respond(w, HTTP_200_OK, "none")
    /\ UNCHANGED db

get_group_details_contributions(w) ==
    /\ pc[w] = "get_group_details_contributions"
    /\ req' = [req EXCEPT ![w].body_contributions = contributions_map(req[w].group_id)]
    /\ Respond(w, HTTP_200_OK, "none")
    /\ UNCHANGED db

\* ----------------------------------------------------------- GET /groups/

get_groups_request(w, authorization) ==
    Authenticated(w, authorization, [NoRequest EXCEPT !.op = "get_groups"],
                  "get_groups_groups")

\* db.query(Group).join(GroupMember).filter(user_id == current_user.id).all():
\* the loaded groups, kept by id and created_by.
get_groups_groups(w) ==
    /\ pc[w] = "get_groups_groups"
    /\ LET user_groups == {[id |-> g.id, created_by |-> g.created_by] :
                              g \in {h \in groups :
                                         verify_group_membership(h.id, req[w].user)}}
       IN  /\ req' = [req EXCEPT ![w].user_groups = user_groups]
           /\ IF user_groups = {}
              THEN Respond(w, HTTP_200_OK, "none")
              ELSE Goto(w, "get_groups_members")
    /\ UNCHANGED db

\* The group the loop is at: the loaded groups are visited in id order.
get_groups_group(w) ==
    CHOOSE g \in req[w].user_groups : \A h \in req[w].user_groups : g.id <= h.id

\* members_query of the group the loop is at.
get_groups_members(w) ==
    /\ pc[w] = "get_groups_members"
    /\ LET group == get_groups_group(w)
       IN  req' = [req EXCEPT ![w].body_groups = @ \cup {group.id},
                              ![w].body_members =
                                  @ \cup member_list(group.id, group.created_by)]
    /\ Goto(w, "get_groups_contributions")
    /\ UNCHANGED db

\* contributions_query of the group, aggregated by full_name.
get_groups_contributions(w) ==
    /\ pc[w] = "get_groups_contributions"
    /\ req' = [req EXCEPT ![w].body_contributions =
                              @ \cup contributions_map(get_groups_group(w).id)]
    /\ Goto(w, "get_groups_transactions")
    /\ UNCHANGED db

\* transactions_query of the group; result.append(...), and the next group.
get_groups_transactions(w) ==
    /\ pc[w] = "get_groups_transactions"
    /\ LET rest == req[w].user_groups \ {get_groups_group(w)}
       IN  /\ req' = [req EXCEPT ![w].user_groups = rest]
           /\ IF rest = {}
              THEN Respond(w, HTTP_200_OK, "none")
              ELSE Goto(w, "get_groups_members")
    /\ UNCHANGED db

\* ------------------------------------------------ POST /polls/{id}/votes

\* Cast vote (specification section 4, VotePoll): the poll must exist, the voter
\* must not have voted on it; no membership check.
vote_poll_request(w, authorization, poll_id, vote) ==
    Authenticated(w, authorization,
                  [NoRequest EXCEPT !.op = "vote_poll", !.poll_id = poll_id,
                                    !.vote = vote],
                  "vote_poll_poll")

vote_poll_poll(w) ==
    /\ pc[w] = "vote_poll_poll"
    /\ IF \A p \in polls : p.id # req[w].poll_id
       THEN Respond(w, HTTP_404_NOT_FOUND, "none")
       ELSE Goto(w, "vote_poll_existing")
    /\ UNCHANGED <<db, req>>

vote_poll_existing(w) ==
    /\ pc[w] = "vote_poll_existing"
    /\ IF \E v \in poll_votes : v.poll_id = req[w].poll_id /\ v.user_id = req[w].user
       THEN Respond(w, HTTP_400_BAD_REQUEST, "none")
       ELSE Goto(w, "vote_poll_commit")
    /\ UNCHANGED <<db, req>>

\* unique_poll_vote declared on (poll_id, user_id, vote).
poll_votes_unique_with_vote(row) == row \notin poll_votes

\* UniqueConstraint("poll_id", "user_id", name="unique_poll_vote").
poll_votes_unique(row) ==
    \A v \in poll_votes : ~(v.poll_id = row.poll_id /\ v.user_id = row.user_id)

\* ForeignKey("polls.id") of poll_votes.poll_id.
poll_votes_references_ok(row) == \E p \in polls : p.id = row.poll_id

\* The insert of the vote.  A uniqueness violation is Conflict; any other
\* storage failure is Internal (specification section 7).
vote_poll_commit(w, fault) ==
    /\ pc[w] = "vote_poll_commit"
    /\ LET new_vote == [poll_id |-> req[w].poll_id, user_id |-> req[w].user,
                        vote |-> req[w].vote]
       IN  IF fault
           THEN /\ Respond(w, HTTP_500_INTERNAL_SERVER_ERROR, "OperationalError")
                /\ UNCHANGED poll_votes
           ELSE IF ~poll_votes_unique(new_vote)
           THEN /\ Respond(w, HTTP_400_BAD_REQUEST, "IntegrityError")
                /\ UNCHANGED poll_votes
           ELSE IF ~poll_votes_references_ok(new_vote)
           THEN /\ Respond(w, HTTP_500_INTERNAL_SERVER_ERROR, "IntegrityError")
                /\ UNCHANGED poll_votes
           ELSE /\ poll_votes' = poll_votes \cup {new_vote}
                /\ Respond(w, HTTP_201_CREATED, "none")
    /\ UNCHANGED <<users, groups, members, contributions, meetings, polls,
                   nextGroupId, req>>

\* --------------------------------------------------- GET /get_current_user/

get_user_info(w, authorization) ==
    /\ pc[w] = "idle"
    /\ LET current_user == get_current_user(authorization)
       IN  /\ req' = [req EXCEPT ![w] = [NoRequest EXCEPT !.op = "get_user_info",
                                                          !.user = current_user]]
           /\ IF current_user = 0
              THEN Respond(w, HTTP_401_UNAUTHORIZED, "none")
              ELSE Respond(w, HTTP_200_OK, "none")
    /\ UNCHANGED db

\* -------------------------------------------------------- specifications

register_user_step(w) ==
    \/ \E u \in FirebaseUids, n \in FullNames, p \in Phones :
           register_user_request(w, u, n, p)
    \/ register_user_check(w)
    \/ \E fault \in BOOLEAN : register_user_commit(w, fault)

create_group_step(w) ==
    \/ \E c \in CreateRequests : create_group_request(w, c[1], c[2])
    \/ create_group_check(w)
    \/ \E fault \in BOOLEAN : create_group_commit(w, fault)
    \/ create_group_refresh(w)
    \/ \E fault \in BOOLEAN : create_group_member(w, fault)
    \/ create_group_return(w)

delete_group_step(w) ==
    \/ delete_group_check(w)
    \/ \E fault \in BOOLEAN : delete_group_commit(w, fault)

add_group_member_step(w) ==
    \/ add_group_member_group(w)
    \/ add_group_member_requester(w)
    \/ add_group_member_user(w)
    \/ add_group_member_existing(w)
    \/ \E fault \in BOOLEAN : add_group_member_commit(w, fault)
    \/ add_group_member_refresh(w)

remove_member_step(w) ==
    \/ remove_member_group(w)
    \/ remove_member_member(w)
    \/ \E fault \in BOOLEAN : remove_member_commit(w, fault)

record_contribution_step(w) ==
    \/ record_contribution_group(w)
    \/ record_contribution_member(w)
    \/ \E fault \in BOOLEAN : record_contribution_commit(w, fault)
    \/ record_contribution_refresh(w)

schedule_meeting_step(w) ==
    \/ schedule_meeting_group(w)
    \/ schedule_meeting_member(w)
    \/ \E fault \in BOOLEAN : schedule_meeting_commit(w, fault)
    \/ schedule_meeting_refresh(w)

get_groups_step(w) ==
    \/ get_groups_groups(w)
    \/ get_groups_members(w)
    \/ get_groups_contributions(w)
    \/ get_groups_transactions(w)

vote_poll_step(w) ==
    \/ vote_poll_poll(w)
    \/ vote_poll_existing(w)
    \/ \E fault \in BOOLEAN : vote_poll_commit(w, fault)

\* The statements of the three listings of one table.
list_step(w) ==
    \/ read_group(w)
    \/ read_member(w)
    \/ read_rows(w)

read_step(w) ==
    \/ list_step(w)
    \/ get_group_details_contributions(w)

\* Registration, from the empty store.
NextUsers ==
    \E w \in Workers :
        \/ Return(w)
        \/ register_user_step(w)
        \/ \E a \in Credentials : get_user_info(w, a)

SpecUsers == Init /\ [][NextUsers]_vars

\* Groups and their members, with both users registered.
InitGroups ==
    /\ users = RegisteredUsers
    /\ groups = {}
    /\ members = {}
    /\ contributions = <<>>
    /\ meetings = <<>>
    /\ polls = {}
    /\ poll_votes = {}
    /\ nextGroupId = 1
    /\ pc = [w \in Workers |-> "idle"]
    /\ req = [w \in Workers |-> NoRequest]
    /\ resp = [w \in Workers |-> 0]
    /\ exc = [w \in Workers |-> "none"]

NextGroups ==
    \E w \in Workers :
        \/ Return(w)
        \/ create_group_step(w)
        \/ \E a \in FirebaseUids, g \in GroupIds : delete_group_request(w, a, g)
        \/ delete_group_step(w)
        \/ \E a \in FirebaseUids, g \in GroupIds, u \in UserIds :
               add_group_member_request(w, a, g, u)
        \/ add_group_member_step(w)
        \/ \E a \in FirebaseUids, g \in GroupIds, u \in UserIds :
               remove_member_request(w, a, g, u)
        \/ remove_member_step(w)

SpecGroups == InitGroups /\ [][NextGroups]_vars

\* The rows of a group.  The store as alice's POST /groups/ "Savers" and bob's
\* POST /groups/ "Chama" leave it; the requests address alice's group, and name
\* bob or a user that does not exist.  The group's detail, which has the gate
\* of the listings, is read under SpecSummary and SpecLists.
RowsGroupIds == {1}
RowsUserIds == {2, 3}

InitRows ==
    /\ users = RegisteredUsers
    /\ groups = {[id |-> 1, name |-> "Savers", created_by |-> 1],
                 [id |-> 2, name |-> "Chama", created_by |-> 2]}
    /\ members = {[group_id |-> 1, user_id |-> 1], [group_id |-> 2, user_id |-> 2]}
    /\ contributions = <<>>
    /\ meetings = <<>>
    /\ polls = {}
    /\ poll_votes = {}
    /\ nextGroupId = 3
    /\ pc = [w \in Workers |-> "idle"]
    /\ req = [w \in Workers |-> NoRequest]
    /\ resp = [w \in Workers |-> 0]
    /\ exc = [w \in Workers |-> "none"]

NextRows ==
    \E w \in Workers :
        \/ Return(w)
        \/ \E a \in FirebaseUids, g \in RowsGroupIds : delete_group_request(w, a, g)
        \/ delete_group_step(w)
        \/ \E a \in FirebaseUids, g \in RowsGroupIds, u \in RowsUserIds :
               add_group_member_request(w, a, g, u)
        \/ add_group_member_step(w)
        \/ \E a \in FirebaseUids, g \in RowsGroupIds, u \in RowsUserIds :
               remove_member_request(w, a, g, u)
        \/ remove_member_step(w)
        \/ \E a \in FirebaseUids, g \in RowsGroupIds, v \in Amounts :
               record_contribution_request(w, a, g, v)
        \/ record_contribution_step(w)
        \/ \E a \in FirebaseUids, g \in RowsGroupIds : schedule_meeting_request(w, a, g)
        \/ schedule_meeting_step(w)
        \/ \E op \in ReadOps \ {"get_group_details"}, a \in FirebaseUids,
                  g \in RowsGroupIds :
               read_request(w, op, a, g)
        \/ list_step(w)

SpecRows == InitRows /\ [][NextRows]_vars

\* Votes.  The store with both groups and a poll in each; requests name a poll
\* that exists or one that does not.
PollIds == {1, 2, 3}

InitPolls ==
    /\ users = RegisteredUsers
    /\ groups = {[id |-> 1, name |-> "Savers", created_by |-> 1],
                 [id |-> 2, name |-> "Chama", created_by |-> 2]}
    /\ members = {[group_id |-> 1, user_id |-> 1], [group_id |-> 2, user_id |-> 2]}
    /\ contributions = <<>>
    /\ meetings = <<>>
    /\ polls = {[id |-> 1, group_id |-> 1, question |-> "Meet Tuesday?", created_by |-> 1],
                [id |-> 2, group_id |-> 2, question |-> "Meet Tuesday?", created_by |-> 2]}
    /\ poll_votes = {}
    /\ nextGroupId = 3
    /\ pc = [w \in Workers |-> "idle"]
    /\ req = [w \in Workers |-> NoRequest]
    /\ resp = [w \in Workers |-> 0]
    /\ exc = [w \in Workers |-> "none"]

NextPolls ==
    \E w \in Workers :
        \/ Return(w)
        \/ \E a \in FirebaseUids, p \in PollIds, v \in BOOLEAN :
               vote_poll_request(w, a, p, v)
        \/ vote_poll_step(w)
        \/ \E a \in FirebaseUids, g \in GroupIds : delete_group_request(w, a, g)
        \/ delete_group_step(w)

SpecPolls == InitPolls /\ [][NextPolls]_vars

\* The summaries of a group.  Two users are registered, the second under either
\* display name (full_name is not unique); alice's group has both as members
\* and bob's group has its creator.  Contributions go to alice's group.
InitSummary ==
    /\ \E full_name \in FullNames :
           users = {[id |-> 1, firebase_uid |-> "uidA", full_name |-> "alice",
                     phone |-> "+1000"],
                    [id |-> 2, firebase_uid |-> "uidB", full_name |-> full_name,
                     phone |-> "+2000"]}
    /\ groups = {[id |-> 1, name |-> "Savers", created_by |-> 1],
                 [id |-> 2, name |-> "Chama", created_by |-> 2]}
    /\ members = {[group_id |-> 1, user_id |-> 1], [group_id |-> 1, user_id |-> 2],
                  [group_id |-> 2, user_id |-> 2]}
    /\ contributions = <<>>
    /\ meetings = <<>>
    /\ polls = {}
    /\ poll_votes = {}
    /\ nextGroupId = 3
    /\ pc = [w \in Workers |-> "idle"]
    /\ req = [w \in Workers |-> NoRequest]
    /\ resp = [w \in Workers |-> 0]
    /\ exc = [w \in Workers |-> "none"]

NextSummary ==
    \E w \in Workers :
        \/ Return(w)
        \/ \E a \in FirebaseUids, g \in RowsGroupIds, v \in Amounts :
               record_contribution_request(w, a, g, v)
        \/ record_contribution_step(w)
        \/ \E a \in FirebaseUids, g \in RowsGroupIds :
               remove_member_request(w, a, g, 2)
        \/ remove_member_step(w)
        \/ \E a \in FirebaseUids, g \in RowsGroupIds :
               read_request(w, "get_group_details", a, g)
        \/ read_step(w)
        \/ \E a \in FirebaseUids : get_groups_request(w, a)
        \/ get_groups_step(w)

SpecSummary == InitSummary /\ [][NextSummary]_vars

\* The member lists of the groups, from the store with both users registered:
\* groups are created and deleted, bob is added and removed, and the three
\* listings are read meanwhile.
ListOps == {"get_group_details", "list_group_members"}

NextLists ==
    \E w \in Workers :
        \/ Return(w)
        \/ create_group_step(w)
        \/ \E a \in FirebaseUids, g \in GroupIds : delete_group_request(w, a, g)
        \/ delete_group_step(w)
        \/ \E a \in FirebaseUids, g \in GroupIds : add_group_member_request(w, a, g, 2)
        \/ add_group_member_step(w)
        \/ \E a \in FirebaseUids, g \in GroupIds : remove_member_request(w, a, g, 2)
        \/ remove_member_step(w)
        \/ \E op \in ListOps, a \in FirebaseUids, g \in GroupIds :
               read_request(w, op, a, g)
        \/ read_step(w)
        \/ \E a \in FirebaseUids : get_groups_request(w, a)
        \/ get_groups_step(w)

SpecLists == InitGroups /\ [][NextLists]_vars

\* ----------------------------------------------------------------- claims

MemberRow(group_id, user_id) == [group_id |-> group_id, user_id |-> user_id]

\* Worker w runs the statement at label in this step.
Runs(w, label) == pc[w] = label /\ pc'[w] # label

C2_LoserGetsConflict ==
    \A w \in Workers :
        (/\ pc[w] = "done" /\ req[w].op = "create_group"
         /\ exc[w] = "IntegrityError" /\ req[w].group_id = 0)
            => resp[w] \in {HTTP_400_BAD_REQUEST, 409}

\* The two parts of C3: the state of table users, and the step that rejects.
UsersUnique ==
    \A u, v \in users :
        (u.firebase_uid = v.firebase_uid \/ u.phone = v.phone) => u = v

DuplicateRejected ==
    \A w \in Workers :
        (/\ req[w].op = "register_user" /\ pc[w] # "done" /\ pc'[w] = "done"
         /\ \E u \in users : u.firebase_uid = req[w].firebase_uid
                               \/ u.phone = req[w].phone)
            => /\ users' = users
               /\ exc'[w] # "OperationalError" => resp'[w] = HTTP_400_BAD_REQUEST

\* C3: no two users rows share a firebase_uid or a phone; and a register_user
\* that finds its firebase_uid or phone taken, at its pre-check or at its
\* commit, inserts nothing and answers 400 (unless the store itself failed).
C3_UsersUnique == []UsersUnique /\ [][DuplicateRejected]_vars

\* A registration rejected at its commit for a phone that another identity holds.
C3_Witness ==
    \E w \in Workers :
        /\ pc[w] = "done" /\ req[w].op = "register_user"
        /\ resp[w] = HTTP_400_BAD_REQUEST /\ exc[w] = "IntegrityError"
        /\ \E u \in users : u.phone = req[w].phone
                              /\ u.firebase_uid # req[w].firebase_uid
        /\ \A u \in users : u.firebase_uid # req[w].firebase_uid

CreatorOf(group_id) == (CHOOSE g \in groups : g.id = group_id).created_by

\* C4: for an existing group, remove_member with requester = creator and
\* target = creator answers 400 and deletes nothing; and no step removes the
\* creator's group_members row while the group stays.
C4_CreatorNeverRemoved ==
    [][/\ \A w \in Workers :
             (/\ Runs(w, "remove_member_group")
              /\ GroupById(req[w].group_id) # {}
              /\ req[w].user = CreatorOf(req[w].group_id)
              /\ req[w].user_id = req[w].user)
                 => /\ pc'[w] = "done" /\ resp'[w] = HTTP_400_BAD_REQUEST
                    /\ members' = members
       /\ \A g \in groups :
             (g \in groups' /\ MemberRow(g.id, g.created_by) \in members)
                 => MemberRow(g.id, g.created_by) \in members']_vars

\* The creator asked to be removed from a group that has a second member, was
\* answered 400, and both rows are still there.
C4_Witness ==
    \E w \in Workers :
        /\ pc[w] = "done" /\ req[w].op = "remove_member"
        /\ resp[w] = HTTP_400_BAD_REQUEST
        /\ GroupById(req[w].group_id) # {}
        /\ req[w].user = CreatorOf(req[w].group_id)
        /\ req[w].user_id = req[w].user
        /\ Cardinality({m \in members : m.group_id = req[w].group_id}) = 2
        /\ MemberRow(req[w].group_id, req[w].user) \in members

\* The order of checks as the specification lists them, against the tables.
C6_StatedOrder(group_id, current_user, user_id) ==
    IF GroupById(group_id) = {} \/ MemberRow(group_id, user_id) \notin members
    THEN HTTP_404_NOT_FOUND
    ELSE IF CreatorOf(group_id) # current_user /\ current_user # user_id
    THEN HTTP_403_FORBIDDEN
    ELSE IF user_id = CreatorOf(group_id) THEN HTTP_400_BAD_REQUEST
    ELSE 0

\* C6 (the claim as stated): remove_member answers by the first failing of:
\* NotFound if the group is absent or the target is not a member, Forbidden
\* unless the requester is the creator or the target, InvalidOperation if the
\* target is the creator.
C6_NotFoundFirst ==
    [][\A w \in Workers :
          (req[w].op = "remove_member" /\ pc[w] # "done" /\ pc'[w] = "done"
           /\ C6_StatedOrder(req[w].group_id, req[w].user, req[w].user_id) # 0)
              => resp'[w] = C6_StatedOrder(req[w].group_id, req[w].user,
                                           req[w].user_id)]_vars

\* C6 (amended): remove_member answers by the first failing of: NotFound if
\* the group is absent, Forbidden unless the requester is the creator or the
\* target, InvalidOperation if the target is the creator, and only then
\* NotFound if the target is not a member.  For an existing group, a target who
\* is not a member and a requester who is neither creator nor target: Forbidden.
C6_RemoveOrder ==
    [][\A w \in Workers :
          /\ Runs(w, "remove_member_group") =>
                LET group_id == req[w].group_id
                    current_user == req[w].user
                    user_id == req[w].user_id
                IN  IF GroupById(group_id) = {}
                    THEN pc'[w] = "done" /\ resp'[w] = HTTP_404_NOT_FOUND
                    ELSE IF current_user # CreatorOf(group_id) /\ current_user # user_id
                    THEN pc'[w] = "done" /\ resp'[w] = HTTP_403_FORBIDDEN
                    ELSE IF user_id = CreatorOf(group_id)
                    THEN pc'[w] = "done" /\ resp'[w] = HTTP_400_BAD_REQUEST
                    ELSE pc'[w] = "remove_member_member"
          /\ Runs(w, "remove_member_member") =>
                IF MemberRow(req[w].group_id, req[w].user_id) \notin members
                THEN pc'[w] = "done" /\ resp'[w] = HTTP_404_NOT_FOUND
                ELSE pc'[w] = "remove_member_commit"]_vars

\* bob, neither creator nor target, asked to remove a non-member from alice's
\* group and was answered 403.
C6_Witness ==
    \E w \in Workers :
        /\ pc[w] = "done" /\ req[w].op = "remove_member"
        /\ resp[w] = HTTP_403_FORBIDDEN
        /\ GroupById(req[w].group_id) # {}
        /\ MemberRow(req[w].group_id, req[w].user_id) \notin members
        /\ req[w].user # CreatorOf(req[w].group_id)
        /\ req[w].user # req[w].user_id

\* C7 (the claim as stated): an add_group_member whose target user does not
\* exist is answered NotFound, also when the requester is not a member.
C7_NotFoundFirst ==
    [][\A w \in Workers :
          (req[w].op = "add_group_member" /\ pc[w] # "done" /\ pc'[w] = "done"
           /\ UserById(req[w].user_id) = {})
              => resp'[w] = HTTP_404_NOT_FOUND]_vars

\* C7 (amended): add_group_member answers by the first failing of: NotFound if
\* the group is absent, Forbidden if the requester is not a member, NotFound if
\* the target user is absent, Conflict if the target is already a member, each
\* as its own query finds it.  For an existing group, an absent target and a
\* requester who is not a member: Forbidden.
C7_AddOrder ==
    [][\A w \in Workers :
          /\ Runs(w, "add_group_member_group") =>
                IF GroupById(req[w].group_id) = {}
                THEN pc'[w] = "done" /\ resp'[w] = HTTP_404_NOT_FOUND
                ELSE pc'[w] = "add_group_member_requester"
          /\ Runs(w, "add_group_member_requester") =>
                IF MemberRow(req[w].group_id, req[w].user) \notin members
                THEN pc'[w] = "done" /\ resp'[w] = HTTP_403_FORBIDDEN
                ELSE pc'[w] = "add_group_member_user"
          /\ Runs(w, "add_group_member_user") =>
                IF UserById(req[w].user_id) = {}
                THEN pc'[w] = "done" /\ resp'[w] = HTTP_404_NOT_FOUND
                ELSE pc'[w] = "add_group_member_existing"
          /\ Runs(w, "add_group_member_existing") =>
                IF MemberRow(req[w].group_id, req[w].user_id) \in members
                THEN pc'[w] = "done" /\ resp'[w] = HTTP_400_BAD_REQUEST
                ELSE pc'[w] = "add_group_member_commit"]_vars

\* A registered non-member asked to add a user that does not exist to an
\* existing group and was answered 403.
C7_Witness ==
    \E w \in Workers :
        /\ pc[w] = "done" /\ req[w].op = "add_group_member"
        /\ resp[w] = HTTP_403_FORBIDDEN
        /\ GroupById(req[w].group_id) # {}
        /\ UserById(req[w].user_id) = {}
        /\ MemberRow(req[w].group_id, req[w].user) \notin members

\* C8: a groups row leaves the store only in the commit of a delete_group whose
\* requester is the row's creator; delete_group of an absent group answers 404
\* and by any user but the creator 403, and neither changes any table.
C8_OnlyCreatorDeletes ==
    [][/\ \A g \in groups :
             g \notin groups' =>
                 \E w \in Workers :
                     /\ pc[w] = "delete_group_commit" /\ req[w].op = "delete_group"
                     /\ req[w].group_id = g.id /\ req[w].user = g.created_by
                     /\ resp'[w] = HTTP_200_OK
       /\ \A w \in Workers :
             Runs(w, "delete_group_check") =>
                 IF GroupById(req[w].group_id) = {}
                 THEN pc'[w] = "done" /\ resp'[w] = HTTP_404_NOT_FOUND /\ UNCHANGED db
                 ELSE IF req[w].user # CreatorOf(req[w].group_id)
                 THEN pc'[w] = "done" /\ resp'[w] = HTTP_403_FORBIDDEN /\ UNCHANGED db
                 ELSE pc'[w] = "delete_group_commit" /\ UNCHANGED db]_vars

\* A member who is not the creator asked to delete the group and was answered
\* 403; the group and both its member rows are there.
C8_Witness ==
    \E w \in Workers :
        /\ pc[w] = "done" /\ req[w].op = "delete_group"
        /\ resp[w] = HTTP_403_FORBIDDEN
        /\ GroupById(req[w].group_id) # {}
        /\ req[w].user # CreatorOf(req[w].group_id)
        /\ MemberRow(req[w].group_id, req[w].user) \in members
        /\ MemberRow(req[w].group_id, CreatorOf(req[w].group_id)) \in members

\* The statement at which a group-scoped handler asks verify_group_membership
\* for its requester: add_group_member, record_contribution, schedule_meeting,
\* and the four GETs of ReadOps.
MembershipGates ==
    {"add_group_member_requester", "record_contribution_member",
     "schedule_meeting_member", "read_member"}

RowsReferenceGroups ==
    /\ \A m \in members : GroupById(m.group_id) # {}
    /\ \A i \in 1..Len(contributions) : GroupById(contributions[i].group_id) # {}
    /\ \A i \in 1..Len(meetings) : GroupById(meetings[i].group_id) # {}

DeleteClears ==
    \A w \in Workers :
        (Runs(w, "delete_group_commit") /\ resp'[w] = HTTP_200_OK)
            => /\ \A g \in groups' : g.id # req[w].group_id
               /\ \A m \in members' : m.group_id # req[w].group_id
               /\ \A i \in 1..Len(contributions') :
                      contributions'[i].group_id # req[w].group_id
               /\ \A i \in 1..Len(meetings') : meetings'[i].group_id # req[w].group_id

C10_StoredAmountPositive ==
    \A i \in 1..Len(contributions) : contributions[i].amount > 0

\* The two parts of C11: the state of table poll_votes, and the step that
\* rejects a second vote.
VotesUnique ==
    \A u, v \in poll_votes :
        (u.poll_id = v.poll_id /\ u.user_id = v.user_id) => u = v

SecondVoteRejected ==
    \A w \in Workers :
        (/\ req[w].op = "vote_poll" /\ pc[w] # "done" /\ pc'[w] = "done"
         /\ \E v \in poll_votes : v.poll_id = req[w].poll_id /\ v.user_id = req[w].user)
            => /\ poll_votes' = poll_votes
               /\ exc'[w] # "OperationalError" => resp'[w] \in {HTTP_400_BAD_REQUEST, 409}

\* C11: no two poll_votes rows share (poll_id, user_id); and a vote_poll by a
\* user who already has a vote on the poll, found at the pre-check or at the
\* insert, answers Conflict and leaves the votes as they were (unless the store
\* itself failed).
C11_OneVotePerUser == []VotesUnique /\ [][SecondVoteRejected]_vars

\* A second vote of the same user, with the other choice, rejected at its insert.
C11_Witness ==
    \E w \in Workers :
        /\ pc[w] = "done" /\ req[w].op = "vote_poll"
        /\ resp[w] = HTTP_400_BAD_REQUEST /\ exc[w] = "IntegrityError"
        /\ [poll_id |-> req[w].poll_id, user_id |-> req[w].user,
            vote |-> ~req[w].vote] \in poll_votes

\* The operations of C12, the codes that are errors, and the tables it names.
MutatingOps ==
    {"register_user", "add_group_member", "remove_member", "record_contribution",
     "schedule_meeting", "delete_group"}

ErrorCodes ==
    {HTTP_400_BAD_REQUEST, HTTP_401_UNAUTHORIZED, HTTP_403_FORBIDDEN,
     HTTP_404_NOT_FOUND, HTTP_422_UNPROCESSABLE_ENTITY, HTTP_500_INTERNAL_SERVER_ERROR}

tables == <<users, groups, members, contributions, meetings>>

\* The statement with which worker w answers an error writes nothing; and when
\* that statement is the refresh after a committed insert, the inserted row is
\* no longer in the store.
ErrorLeavesNoRow ==
    \A w \in Workers :
        (/\ req'[w].op \in MutatingOps
         /\ pc[w] # "done" /\ pc'[w] = "done" /\ resp'[w] \in ErrorCodes)
            => /\ tables' = tables
               /\ pc[w] = "add_group_member_refresh" =>
                      MemberRow(req[w].group_id, req[w].user_id) \notin members'
               /\ pc[w] = "record_contribution_refresh" =>
                      \A i \in 1..Len(contributions') :
                          contributions'[i].group_id # req[w].group_id
               /\ pc[w] = "schedule_meeting_refresh" =>
                      \A i \in 1..Len(meetings') :
                          meetings'[i].group_id # req[w].group_id

\* A statement of one of the operations that writes is its commit, and the
\* request then answers success or goes on to refresh the row.
WritesOnlyAtCommit ==
    \A w \in Workers :
        (/\ req'[w].op \in MutatingOps /\ pc'[w] # pc[w] /\ tables' # tables)
            => /\ pc[w] \in {"register_user_commit", "add_group_member_commit",
                              "remove_member_commit", "record_contribution_commit",
                              "schedule_meeting_commit", "delete_group_commit"}
               /\ \/ pc'[w] = "done" /\ resp'[w] \in {HTTP_200_OK, HTTP_201_CREATED}
                  \/ pc'[w] \in {"add_group_member_refresh",
                                 "record_contribution_refresh",
                                 "schedule_meeting_refresh"}

RECURSIVE UserTotal(_, _, _)
UserTotal(group_id, user_id, i) ==
    IF i = 0 THEN 0
    ELSE UserTotal(group_id, user_id, i - 1)
         + (IF contributions[i].group_id = group_id /\ contributions[i].user_id = user_id
            THEN contributions[i].amount ELSE 0)

\* C13 (the claim as stated): when get_group_details or get_groups computes the
\* contribution mapping of a group, the value under a user's display name is
\* the sum of the amounts of that one user's contributions rows in the group.
C13_ValueIsUsersSum ==
    [][\A w \in Workers :
          (Runs(w, "get_group_details_contributions") \/ Runs(w, "get_groups_contributions"))
              => \A e \in req'[w].body_contributions \ req[w].body_contributions :
                     \A u \in users :
                         u.full_name = e.name
                             => e.total = UserTotal(e.group_id, u.id, Len(contributions))]_vars

\* C14: create_group commits the groups row without a group_members row, and
\* the creator's row in a second commit; when that second commit fails the
\* request answers 500, the groups row stays as committed and the group has no
\* row for its creator.
C14_TwoCommits ==
    [][\A w \in Workers :
          /\ (Runs(w, "create_group_commit") /\ pc'[w] = "create_group_refresh") =>
                 /\ \E g \in groups' : g.id = req'[w].group_id
                 /\ members' = members
                 /\ MemberRow(req'[w].group_id, req[w].user) \notin members'
          /\ (Runs(w, "create_group_member") /\ pc'[w] = "create_group_return") =>
                 /\ groups' = groups
                 /\ members' = members \cup {MemberRow(req[w].group_id, req[w].user)}
          /\ (Runs(w, "create_group_member") /\ pc'[w] = "done") =>
                 /\ resp'[w] = HTTP_500_INTERNAL_SERVER_ERROR
                 /\ groups' = groups /\ members' = members
                 /\ MemberRow(req[w].group_id, req[w].user) \notin members']_vars

\* A create_group answered 500 after its second commit failed: the group exists,
\* its creator is not a member, and a concurrent add_group_member of the creator
\* on that group was refused as from a non-member.
C14_Witness ==
    \E w, v \in Workers :
        /\ pc[w] = "done" /\ req[w].op = "create_group"
        /\ resp[w] = HTTP_500_INTERNAL_SERVER_ERROR /\ exc[w] = "OperationalError"
        /\ GroupById(req[w].group_id) # {}
        /\ CreatorOf(req[w].group_id) = req[w].user
        /\ ~verify_group_membership(req[w].group_id, req[w].user)
        /\ pc[v] = "done" /\ req[v].op = "add_group_member"
        /\ req[v].group_id = req[w].group_id /\ req[v].user = req[w].user
        /\ resp[v] = HTTP_403_FORBIDDEN

\* Worker w runs a members query in this step, and the groups it lists there.
RunsMembersQuery(w) ==
    \/ Runs(w, "read_rows") /\ req[w].op \in ListOps
    \/ Runs(w, "get_groups_members")

ListedGroups(w) == req'[w].body_groups \ req[w].body_groups

\* The entries of the member list that worker w returns for a group.
ReturnedList(w, group_id) == {e \in req'[w].body_members : e.group_id = group_id}

\* Exactly one entry is "admin", it is the creator, and the others are "member".
OneAdmin(list, group_id) ==
    /\ Cardinality({e \in list : e.role = "admin"}) = 1
    /\ \A e \in list : e.role \in {"admin", "member"}
    /\ \A e \in list : e.role = "admin" =>
           \E g \in groups : g.id = group_id /\ g.created_by = e.id

\* C15 (the claim as stated): every member list that list_group_members,
\* get_group_details or get_groups returns for a group has exactly one "admin"
\* entry, the group's creator, and every other entry is "member".
C15_ExactlyOneAdmin ==
    [][\A w \in Workers :
          RunsMembersQuery(w) =>
              \A group_id \in ListedGroups(w) :
                  OneAdmin(ReturnedList(w, group_id), group_id)]_vars

\* C15 (amended): such a list is empty, when the group was deleted after the
\* request found the requester to be a member, or has exactly one "admin" entry,
\* the group's creator, and every other entry is "member".
C15_OneAdminOrEmpty ==
    [][\A w \in Workers :
          RunsMembersQuery(w) =>
              \A group_id \in ListedGroups(w) :
                  \/ /\ ReturnedList(w, group_id) = {}
                     /\ GroupById(group_id) = {}
                  \/ OneAdmin(ReturnedList(w, group_id), group_id)]_vars

\* A list with the creator as "admin" and bob as "member", returned while
\* another group exists whose creator's membership insert failed.
C15_Witness ==
    \E w \in Workers :
        /\ pc[w] = "done" /\ resp[w] = HTTP_200_OK
        /\ req[w].op \in ListOps \cup {"get_groups"}
        /\ \E a, b \in req[w].body_members :
               /\ a.group_id = b.group_id
               /\ a.role = "admin" /\ b.role = "member"
        /\ \E g \in groups : ~verify_group_membership(g.id, g.created_by)

\* C16 (the claim as stated): a record_contribution, schedule_meeting or
\* add_group_member commits its row only when the requester is a member of the
\* group at the moment of the commit.
C16_MemberAtCommit ==
    [][\A w \in Workers :
          (/\ \/ Runs(w, "record_contribution_commit")
              \/ Runs(w, "schedule_meeting_commit")
              \/ Runs(w, "add_group_member_commit")
           /\ <<members, contributions, meetings>>' # <<members, contributions, meetings>>)
              => verify_group_membership(req[w].group_id, req[w].user)]_vars

====
